---- MODULE Spec2Model ----
(***************************************************************************)
(* WalSign: the document ledger, the signer capabilities and the registry  *)
(* of the Move module wal_sign::wal_sign, as a state machine whose steps   *)
(* are whole transactions (a Move transaction commits atomically or        *)
(* aborts leaving every object as it was; transactions touching the same   *)
(* shared object are executed one after the other in consensus order).     *)
(***************************************************************************)
EXTENDS Integers, Sequences, FiniteSets, TLC

\* ------------------------------------------------------------------ bounds
\* Spec: one document, followed through every transaction of the ledger
NumAddrs == 3       \* addresses 1..NumAddrs
MaxDocs == 1        \* documents ever created
MaxCaps == 3        \* SignerCap objects ever issued
MaxBlob == 1        \* blob ids 0..MaxBlob, 0 is the empty string
MaxHist == 1        \* entries of a document's signed_blob_id vector
\* SpecTwoDocs: two documents side by side
TwoAddrs == 2
TwoDocs == 2
TwoCaps == 2
\* SpecConc: sign transactions in flight, executed in any order
ConcAddrs == 2
ConcCaps == 2
MaxInflight == 2    \* sign transactions ever submitted
MaxClock == 1       \* clock.timestamp_ms() ranges over 0..MaxClock
\* SpecVersions: the blob references of two documents
VerAddrs == 2
VerDocs == 2
VerCaps == 2
VerHist == 2        \* entries of a document's signed_blob_id vector
\* SpecHistory: one document's signed versions under every transaction
HistAddrs == 2
HistCaps == 2
HistLen == 3        \* entries of a document's signed_blob_id vector
\* SpecCreateSaga: one create request of the frontend, retried after failures
CsAddrs == 2
CsDocs == 2
CsCaps == 3
\* recipients entered in the form
CsRecipients == 2
\* content references uploadToWalrus returns
CsBlobs == 2

\* SpecSignSaga: the sign page of the frontend next to direct transactions
SsAddrs == 2
SsDocs == 2
SsCaps == 2
SsHist == 1
\* objects per page of getOwnedObjects (50 in the source)
PageLimit == 1

\* SpecScan: the sign page alone, with accounts that own more capabilities
ScanCaps == 3

\* SpecLookup: the registry's views, also for addresses that never appear
LkAddrs == 2
LkUsers == 3
LkDocs == 2
LkCaps == 2

\* SpecDecrypt: the Decrypt button of the sign page, for any account
DcAddrs == 3
DcDocs == 1
DcCaps == 1

\* SpecParticipants: documents created and signers added through the frontend
PtAddrs == 2
PtDocs == 1
PtCaps == 3
PtRecipients == 2

\* SpecSigning: one document, created by a direct call, and its signing
SgAddrs == 3
SgDocs == 1
SgCaps == 3

Addrs == 1..NumAddrs
Blobs == 0..MaxBlob

\* ----------------------------------------------------------- error codes
E_NOT_AUTHORIZED == 1
E_ALREADY_SIGNED == 2

\* status codes of Document.status
PENDING == 0
PARTIAL == 1
COMPLETE == 2

VARIABLES
    registry,   \* the shared DocumentRegistry
    docs,       \* the shared Document objects; a document's ID is its index
    caps,       \* the SignerCap objects; a capability's UID is its index
    clock,      \* the shared Clock's timestamp_ms
    inflight,   \* sign transactions submitted to consensus, by slot
    last,       \* effects of the transaction executed last
    upload,     \* the frontend's useDocumentUpload hook: the create saga
    signing,    \* the frontend's SignPage: the sign saga
    decryption, \* the frontend's SignPage and useDocumentDecryption hook
    modal       \* the frontend's AddParticipantsModal

vars ==
    <<registry, docs, caps, clock, inflight, last, upload, signing, decryption,
      modal>>

\* the state of the frontend
ui == <<upload, signing, decryption, modal>>

\* ------------------------------------------------------- vector helpers
\* vector::contains
contains(v, e) == \E i \in 1..Len(v) : v[i] = e

\* vector::index_of: the first index holding e (0 when there is none)
index_of(v, e) ==
    IF contains(v, e)
    THEN CHOOSE i \in 1..Len(v) : v[i] = e /\ \A j \in 1..(i - 1) : v[j] # e
    ELSE 0

\* vector::remove
remove(v, i) == [j \in 1..(Len(v) - 1) |-> IF j < i THEN v[j] ELSE v[j + 1]]

\* sui::table: a table is a function whose domain is the set of its keys
table_new == <<>>
table_contains(t, k) == k \in DOMAIN t
table_add(t, k, v) == [x \in (DOMAIN t) \cup {k} |-> IF x = k THEN v ELSE t[x]]

\* a faulty push: the entry is written anew, what was recorded is lost
table_push_overwriting(t, k, id) == table_add(t, k, <<id>>)

\* the table after `if (!t.contains(k)) t.add(k, empty); t.borrow_mut(k).push_back(id)`
table_push(t, k, id) ==
    LET t1 == IF table_contains(t, k) THEN t ELSE table_add(t, k, <<>>)
    IN  [t1 EXCEPT ![k] = Append(@, id)]

\* --------------------------------------------------------------- structs
Signature(signer, signed_at) == [signer |-> signer, signed_at |-> signed_at]

SignerCap(document_id, owner) == [document_id |-> document_id, owner |-> owner]

DocumentCreated(document_id, creator, title, authorized_signers, timestamp) ==
    [type |-> "DocumentCreated", document_id |-> document_id, creator |-> creator,
     title |-> title, authorized_signers |-> authorized_signers,
     timestamp |-> timestamp]

\* a faulty event: it carries the signature count before the insertion
DocumentSigned_before(document_id, signer, timestamp, total_signatures) ==
    [type |-> "DocumentSigned", document_id |-> document_id, signer |-> signer,
     timestamp |-> timestamp, total_signatures |-> total_signatures - 1]

DocumentSigned(document_id, signer, timestamp, total_signatures) ==
    [type |-> "DocumentSigned", document_id |-> document_id, signer |-> signer,
     timestamp |-> timestamp, total_signatures |-> total_signatures]

\* the outcome of a transaction: committed, or aborted with a code
Committed == <<>>
Aborted(code) == <<code>>

\* the effects of one executed transaction: the call, its outcome and the
\* events it emitted
Receipt(op, sender, doc, cap, abort, events) ==
    [op |-> op, sender |-> sender, doc |-> doc, cap |-> cap, abort |-> abort,
     events |-> events]

NoReceipt == Receipt("init", 0, 0, 0, Committed, <<>>)

\* an aborted transaction changes no object and emits nothing
Abort(op, sender, doc, cap, code) ==
    /\ last' = Receipt(op, sender, doc, cap, Aborted(code), <<>>)
    /\ UNCHANGED <<registry, docs, caps>>

\* ------------------------------------------------------- view functions
\* a faulty has_signed: the loop never finds the signer
has_signed_never(document, signer) == FALSE

has_signed(document, signer) ==
    \E i \in 1..Len(document.signatures) : document.signatures[i].signer = signer

is_authorized(document, addr) == contains(document.authorized_signers, addr)

get_status(document) == document.status

signatures_count(document) == Len(document.signatures)

\* a faulty view: it borrows the entry without asking whether there is one,
\* and aborts (as table::borrow does) when there is none
get_created_documents_unchecked(reg, user) ==
    IF table_contains(reg.created_by_user, user)
    THEN reg.created_by_user[user]
    ELSE <<0>>

get_created_documents(reg, user) ==
    IF table_contains(reg.created_by_user, user)
    THEN reg.created_by_user[user]
    ELSE <<>>

get_assigned_documents(reg, user) ==
    IF table_contains(reg.assigned_to_user, user)
    THEN reg.assigned_to_user[user]
    ELSE <<>>

get_total_documents(reg) == reg.total_documents

\* what a view returns to the transaction that called it
Returned(value) == [type |-> "Returned", value |-> value]

\* a transaction that calls one of the two views for a user: the registry is
\* borrowed immutably
view_created_documents(sender, user) ==
    /\ last' = Receipt("get_created_documents", sender, 0, 0, Committed,
                 <<Returned(get_created_documents(registry, user))>>)
    /\ UNCHANGED <<registry, docs, caps, clock, inflight>>

view_assigned_documents(sender, user) ==
    /\ last' = Receipt("get_assigned_documents", sender, 0, 0, Committed,
                 <<Returned(get_assigned_documents(registry, user))>>)
    /\ UNCHANGED <<registry, docs, caps, clock, inflight>>

\* ------------------------------------------------- registryService (frontend)
\* `[...new Set(v)]`: the distinct elements of v, in the order of their first
\* occurrence
RECURSIVE unique(_)
unique(v) ==
    IF v = <<>> THEN <<>>
    ELSE LET front == unique(SubSeq(v, 1, Len(v) - 1))
             e == v[Len(v)]
         IN  IF contains(front, e) THEN front ELSE Append(front, e)

\* the DocumentSummary built from the fields of the Document object d
getDocumentDetails(d, document) ==
    [documentId |-> d,
     title |-> document.title,
     description |-> document.description,
     creator |-> document.creator,
     walrusBlobId |-> document.walrus_blob_id,
     signedBlobIds |-> document.signed_blob_id,
     authorizedSigners |-> unique(document.authorized_signers),
     signatures |-> [i \in 1..Len(document.signatures) |->
                        [signer |-> document.signatures[i].signer,
                         signedAt |-> document.signatures[i].signed_at]],
     createdAt |-> document.created_at,
     status |-> document.status]

\* DocumentCard: the status shown on the card of a DocumentSummary
getActualStatus(document) ==
    LET uniqueSigners == Len(unique(document.authorizedSigners))
        signatureCount == Len(document.signatures)
    IN  IF signatureCount = 0 THEN 0
        ELSE IF signatureCount < uniqueSigners THEN 1
        ELSE 2

\* ProfilePage.filterDocuments: the status filter, on the stored status
matchesStatus(filterStatus, doc) ==
    \/ filterStatus = "all"
    \/ filterStatus = "pending" /\ doc.status = 0
    \/ filterStatus = "partial" /\ doc.status = 1
    \/ filterStatus = "complete" /\ doc.status = 2

\* a faulty getLatestBlobId: it takes the oldest signed version
getLatestBlobId_oldest(document) ==
    IF Len(document.signedBlobIds) > 0
    THEN document.signedBlobIds[1]
    ELSE document.walrusBlobId

getLatestBlobId(document) ==
    IF Len(document.signedBlobIds) > 0
    THEN document.signedBlobIds[Len(document.signedBlobIds)]
    ELSE document.walrusBlobId

\* ------------------------------------------------------------------ init
\* an empty slot of the transactions in flight
NoRequest == [cap |-> 0, doc |-> 0, phase |-> "none", outcome |-> Committed,
              overlap |-> FALSE]

\* useState<UploadProgress> / useState<SignProgress>
Progress(stage, message, progress) ==
    [stage |-> stage, message |-> message, progress |-> progress]

\* useDocumentUpload before uploadDocument was ever called
UploadIdle ==
    [pc |-> "idle", account |-> 0, title |-> "", recipients |-> <<>>,
     documentId |-> 0, sealId |-> 0, walrusBlobId |-> 0,
     progress |-> Progress("idle", "", 0)]

\* SignPage before a document was loaded
SignPageIdle ==
    [pc |-> "idle", account |-> 0, documentId |-> 0, authorizedSigners |-> <<>>,
     signers |-> {}, signedBlobId |-> 0, signerCapId |-> 0,
     cursor |-> 0, error |-> "", signSuccess |-> FALSE,
     signProgress |-> Progress("idle", "", 0)]

\* SignPage's decryption state and the useDocumentDecryption hook before the
\* Decrypt button was pressed
DecryptIdle ==
    [pc |-> "idle", account |-> 0, documentId |-> 0, blobId |-> 0,
     error |-> "", decryptionError |-> "", pdfBlob |-> FALSE]

\* AddParticipantsModal while it is not shown
ModalClosed ==
    [pc |-> "closed", account |-> 0, documentId |-> 0,
     authorizedSigners |-> <<>>, newSignerAddress |-> 0, error |-> "",
     success |-> 0]

Init ==
    /\ registry = [created_by_user |-> table_new, assigned_to_user |-> table_new,
                   total_documents |-> 0]
    /\ docs = <<>>
    /\ caps = <<>>
    /\ clock = 0
    /\ inflight = [s \in 1..MaxInflight |-> NoRequest]
    /\ last = NoReceipt
    /\ upload = UploadIdle
    /\ signing = SignPageIdle
    /\ decryption = DecryptIdle
    /\ modal = ModalClosed

\* a faulty loop over the signer list: it stops after the first signer
assign_all_first(t, signers, id) ==
    IF signers = <<>> THEN t ELSE table_push(t, Head(signers), id)

\* the registry's assigned_to_user after the loop over the signer list
RECURSIVE assign_all(_, _, _)
assign_all(t, signers, id) ==
    IF signers = <<>> THEN t
    ELSE assign_all(table_push(t, Head(signers), id), Tail(signers), id)

\* a faulty create_document: the registry's counter is not incremented
create_document_uncounted(sender, walrus_blob_id, title, description, authorized_signers) ==
    LET id == Len(docs) + 1
        document == [creator |-> sender,
                     walrus_blob_id |-> walrus_blob_id,
                     title |-> title,
                     description |-> description,
                     authorized_signers |-> authorized_signers,
                     signatures |-> <<>>,
                     created_at |-> clock,
                     status |-> PENDING,
                     signed_blob_id |-> <<>>]
    IN  /\ registry' =
             [created_by_user |-> table_push(registry.created_by_user, sender, id),
              assigned_to_user |->
                  assign_all(registry.assigned_to_user, authorized_signers, id),
              total_documents |-> registry.total_documents]
        /\ caps' = caps \o [i \in 1..Len(authorized_signers) |->
                               SignerCap(id, authorized_signers[i])]
        /\ docs' = Append(docs, document)
        /\ last' = Receipt("create_document", sender, id, 0, Committed,
                     <<DocumentCreated(id, sender, title, authorized_signers, clock)>>)
        /\ UNCHANGED <<clock, inflight>>


create_document(sender, walrus_blob_id, title, description, authorized_signers) ==
    LET id == Len(docs) + 1
        document == [creator |-> sender,
                     walrus_blob_id |-> walrus_blob_id,
                     title |-> title,
                     description |-> description,
                     authorized_signers |-> authorized_signers,
                     signatures |-> <<>>,
                     created_at |-> clock,
                     status |-> PENDING,
                     signed_blob_id |-> <<>>]
    IN  /\ registry' =
             [created_by_user |-> table_push(registry.created_by_user, sender, id),
              assigned_to_user |->
                  assign_all(registry.assigned_to_user, authorized_signers, id),
              total_documents |-> registry.total_documents + 1]
        /\ caps' = caps \o [i \in 1..Len(authorized_signers) |->
                               SignerCap(id, authorized_signers[i])]
        /\ docs' = Append(docs, document)
        /\ last' = Receipt("create_document", sender, id, 0, Committed,
                     <<DocumentCreated(id, sender, title, authorized_signers, clock)>>)
        /\ UNCHANGED <<clock, inflight>>

\* a faulty creator check: it lets everyone through
is_creator_anyone(document, sender) == TRUE

\* `ctx.sender() == document.creator`
is_creator(document, sender) == sender = document.creator

\* a faulty update_blob_id: it writes every document of the sender
update_blob_id_all(sender, d, walrus_blob_id) ==
    /\ IF ~is_creator(docs[d], sender)
       THEN Abort("update_blob_id", sender, d, 0, E_NOT_AUTHORIZED)
       ELSE /\ docs' = [e \in DOMAIN docs |->
                          IF is_creator(docs[e], sender)
                          THEN [docs[e] EXCEPT !.walrus_blob_id = walrus_blob_id]
                          ELSE docs[e]]
            /\ last' = Receipt("update_blob_id", sender, d, 0, Committed, <<>>)
            /\ UNCHANGED <<registry, caps>>
    /\ UNCHANGED <<clock, inflight>>

update_blob_id(sender, d, walrus_blob_id) ==
    /\ IF ~is_creator(docs[d], sender)
       THEN Abort("update_blob_id", sender, d, 0, E_NOT_AUTHORIZED)
       ELSE /\ docs' = [docs EXCEPT ![d].walrus_blob_id = walrus_blob_id]
            /\ last' = Receipt("update_blob_id", sender, d, 0, Committed, <<>>)
            /\ UNCHANGED <<registry, caps>>
    /\ UNCHANGED <<clock, inflight>>

\* a faulty update_signed_blob_id: the new version replaces the history
update_signed_blob_id_replacing(cap, d, signed_blob_id) ==
    LET sender == caps[cap].owner
    IN  /\ IF ~contains(docs[d].authorized_signers, sender)
           THEN Abort("update_signed_blob_id", sender, d, cap, E_NOT_AUTHORIZED)
           ELSE /\ docs' = [docs EXCEPT ![d].signed_blob_id = <<signed_blob_id>>]
                /\ last' = Receipt("update_signed_blob_id", sender, d, cap, Committed, <<>>)
                /\ UNCHANGED <<registry, caps>>
        /\ UNCHANGED <<clock, inflight>>

\* the sender of a transaction that takes a SignerCap is the capability's owner
update_signed_blob_id(cap, d, signed_blob_id) ==
    LET sender == caps[cap].owner
    IN  /\ IF ~contains(docs[d].authorized_signers, sender)
           THEN Abort("update_signed_blob_id", sender, d, cap, E_NOT_AUTHORIZED)
           ELSE /\ docs' = [docs EXCEPT ![d].signed_blob_id = Append(@, signed_blob_id)]
                /\ last' = Receipt("update_signed_blob_id", sender, d, cap, Committed, <<>>)
                /\ UNCHANGED <<registry, caps>>
        /\ UNCHANGED <<clock, inflight>>

\* a faulty issue_signer_capability: the recipient is not put on the signer list
issue_signer_capability_unlisted(sender, d, recipient) ==
    /\ IF ~is_creator(docs[d], sender)
       THEN Abort("issue_signer_capability", sender, d, 0, E_NOT_AUTHORIZED)
       ELSE /\ registry' = [registry EXCEPT !.assigned_to_user =
                                table_push(@, recipient, d)]
            /\ docs' = docs
            /\ caps' = Append(caps, SignerCap(d, recipient))
            /\ last' = Receipt("issue_signer_capability", sender, d, 0, Committed, <<>>)
    /\ UNCHANGED <<clock, inflight>>


issue_signer_capability(sender, d, recipient) ==
    /\ IF ~is_creator(docs[d], sender)
       THEN Abort("issue_signer_capability", sender, d, 0, E_NOT_AUTHORIZED)
       ELSE /\ registry' = [registry EXCEPT !.assigned_to_user =
                                table_push(@, recipient, d)]
            /\ docs' = [docs EXCEPT ![d].authorized_signers = Append(@, recipient)]
            /\ caps' = Append(caps, SignerCap(d, recipient))
            /\ last' = Receipt("issue_signer_capability", sender, d, 0, Committed, <<>>)
    /\ UNCHANGED <<clock, inflight>>

\* a faulty capability check: the capability's document is not compared
cap_matches_any(cap, d) == TRUE

\* `cap.document_id == object::id(document)`
cap_matches(cap, d) == caps[cap].document_id = d

\* a faulty status update: an incomplete document is stored as pending
sign_status_pending(total_sigs, total_required) ==
    IF total_sigs = total_required THEN COMPLETE ELSE PENDING

\* the status stored by sign_document from the two vector lengths
sign_status(total_sigs, total_required) ==
    IF total_sigs = total_required THEN COMPLETE ELSE PARTIAL

\* the body of sign_document, executed with the given capability on document d
sign_document_tx(cap, d) ==
    LET sender == caps[cap].owner
        document == docs[d]
    IN  IF ~cap_matches(cap, d)
        THEN Abort("sign_document", sender, d, cap, E_NOT_AUTHORIZED)
        ELSE IF has_signed(document, sender)
        THEN Abort("sign_document", sender, d, cap, E_ALREADY_SIGNED)
        ELSE LET signatures == Append(document.signatures, Signature(sender, clock))
                 total_sigs == Len(signatures)
                 total_required == Len(document.authorized_signers)
             IN  /\ docs' = [docs EXCEPT
                               ![d].signatures = signatures,
                               ![d].status = sign_status(total_sigs, total_required)]
                 /\ last' = Receipt("sign_document", sender, d, cap, Committed,
                              <<DocumentSigned(d, sender, clock, total_sigs)>>)
                 /\ UNCHANGED <<registry, caps>>

sign_document(cap, d) ==
    /\ sign_document_tx(cap, d)
    /\ UNCHANGED <<clock, inflight>>

\* a faulty seal_approve: the creator is not let through
seal_approve_signers_only(sender, d) ==
    /\ IF ~contains(docs[d].authorized_signers, sender)
       THEN Abort("seal_approve", sender, d, 0, E_NOT_AUTHORIZED)
       ELSE /\ last' = Receipt("seal_approve", sender, d, 0, Committed, <<>>)
            /\ UNCHANGED <<registry, docs, caps>>
    /\ UNCHANGED <<clock, inflight>>

seal_approve(sender, d) ==
    /\ IF ~(contains(docs[d].authorized_signers, sender) \/ sender = docs[d].creator)
       THEN Abort("seal_approve", sender, d, 0, E_NOT_AUTHORIZED)
       ELSE /\ last' = Receipt("seal_approve", sender, d, 0, Committed, <<>>)
            /\ UNCHANGED <<registry, docs, caps>>
    /\ UNCHANGED <<clock, inflight>>

\* the signatures of a vector that are not of the given signer
RECURSIVE without_signer(_, _)
without_signer(signatures, signer) ==
    IF signatures = <<>> THEN <<>>
    ELSE IF Head(signatures).signer = signer
    THEN without_signer(Tail(signatures), signer)
    ELSE <<Head(signatures)>> \o without_signer(Tail(signatures), signer)

\* a faulty revoke_signer: it also drops the signature the signer recorded
revoke_signer_with_signature(sender, d, signer_to_revoke) ==
    /\ IF ~is_creator(docs[d], sender)
       THEN Abort("revoke_signer", sender, d, 0, E_NOT_AUTHORIZED)
       ELSE LET index == index_of(docs[d].authorized_signers, signer_to_revoke)
                found == index # 0
            IN  /\ docs' = IF found
                           THEN [docs EXCEPT
                                   ![d].authorized_signers = remove(@, index),
                                   ![d].signatures =
                                       without_signer(@, signer_to_revoke)]
                           ELSE docs
                /\ last' = Receipt("revoke_signer", sender, d, 0, Committed, <<>>)
                /\ UNCHANGED <<registry, caps>>
    /\ UNCHANGED <<clock, inflight>>

revoke_signer(sender, d, signer_to_revoke) ==
    /\ IF ~is_creator(docs[d], sender)
       THEN Abort("revoke_signer", sender, d, 0, E_NOT_AUTHORIZED)
       ELSE LET index == index_of(docs[d].authorized_signers, signer_to_revoke)
                found == index # 0
            IN  /\ docs' = IF found
                           THEN [docs EXCEPT ![d].authorized_signers = remove(@, index)]
                           ELSE docs
                /\ last' = Receipt("revoke_signer", sender, d, 0, Committed, <<>>)
                /\ UNCHANGED <<registry, caps>>
    /\ UNCHANGED <<clock, inflight>>

\* the shared Clock advances between transactions
Tick ==
    /\ clock' = clock + 1
    /\ UNCHANGED <<registry, docs, caps, inflight, last>>

DocIds == 1..Len(docs)
CapIds == 1..Len(caps)

\* a sign transaction is submitted: it waits to be ordered by consensus
submit_sign(slot, cap, d) ==
    /\ inflight[slot] = NoRequest
    /\ inflight' = [inflight EXCEPT ![slot] =
          [cap |-> cap, doc |-> d, phase |-> "submitted", outcome |-> Committed,
           overlap |-> \E o \in DOMAIN inflight :
                          /\ inflight[o].phase = "submitted"
                          /\ inflight[o].doc = d
                          /\ caps[inflight[o].cap].owner = caps[cap].owner]]
    /\ UNCHANGED <<registry, docs, caps, clock, last>>

\* consensus picks a submitted sign transaction and executes it
execute_sign(slot) ==
    /\ inflight[slot].phase = "submitted"
    /\ sign_document_tx(inflight[slot].cap, inflight[slot].doc)
    /\ inflight' = [inflight EXCEPT ![slot].phase = "executed",
                                    ![slot].outcome = last'.abort]
    /\ UNCHANGED clock

\* -------------------------------------- useDocumentUpload: the create saga
\* uploadDocument runs from one await to the next; each of the actions below
\* is one such stretch.  A wallet transaction either is executed (onSuccess)
\* or is not executed at all (onError); encryptPDF and uploadToWalrus either
\* return or throw.
ledger == <<registry, docs, caps, clock, inflight, last>>

\* `progress.stage !== 'idle' && progress.stage !== 'complete' &&
\*  progress.stage !== 'error'`
isUploading(u) == u.progress.stage \notin {"idle", "complete", "error"}

\* ConnectWallet: `connected && !!file && !!title`, a file being chosen
canCreate(account, title) == account # 0 /\ title # ""

\* a faulty catch block: the failure is reported as a success
uploadDocument_catch_complete(error) ==
    upload' = [upload EXCEPT
                 !.pc = "failed",
                 !.progress = Progress("complete", "Document uploaded successfully!", 100)]

\* the catch block of uploadDocument: whatever the stage, the progress
\* becomes 'error' with the message of the error thrown
uploadDocument_catch(error) ==
    upload' = [upload EXCEPT !.pc = "failed",
                             !.progress = Progress("error", error, 0)]

\* the button's onClick: onCreate calls uploadDocument(file, title,
\* recipients), which runs up to the submission of the create transaction
onCreate(account, title, recipients) ==
    /\ canCreate(account, title)
    /\ ~isUploading(upload)
    /\ upload' = [pc |-> "create", account |-> account, title |-> title,
                  recipients |-> recipients, documentId |-> 0, sealId |-> 0,
                  walrusBlobId |-> 0,
                  progress |-> Progress("recording",
                      "Creating document record on blockchain...", 10)]
    /\ UNCHANGED ledger

\* Stage 1: the create transaction, with the deduplicated signers, an empty
\* blob id and an empty description
uploadDocument_create(executed, error) ==
    /\ upload.pc = "create"
    /\ IF executed
       THEN /\ create_document(upload.account, 0, upload.title, "",
                               unique(upload.recipients))
            /\ upload' = [upload EXCEPT
                   !.pc = "encrypt",
                   !.documentId = Len(docs) + 1,
                   !.progress = Progress("encrypting",
                                         "Encrypting PDF with Seal...", 30)]
       ELSE uploadDocument_catch(error) /\ UNCHANGED ledger

\* a faulty stage 2: the PDF is encrypted under the account's address
uploadDocument_encrypt_account(encrypted, error) ==
    /\ upload.pc = "encrypt"
    /\ IF encrypted
       THEN upload' = [upload EXCEPT
                !.pc = "upload",
                !.sealId = upload.account,
                !.progress = Progress("uploading",
                                      "Uploading encrypted data to Walrus...", 50)]
       ELSE uploadDocument_catch(error)
    /\ UNCHANGED ledger

\* Stage 2: encryptPDF under the document id; sealId is the `id` given to
\* sealClient.encrypt
uploadDocument_encrypt(encrypted, error) ==
    /\ upload.pc = "encrypt"
    /\ IF encrypted
       THEN upload' = [upload EXCEPT
                !.pc = "upload",
                !.sealId = upload.documentId,
                !.progress = Progress("uploading",
                                      "Uploading encrypted data to Walrus...", 50)]
       ELSE uploadDocument_catch(error)
    /\ UNCHANGED ledger

\* Stage 3: uploadToWalrus returns a blob id (never an empty one) or throws
uploadDocument_upload(uploaded, blobId, error) ==
    /\ upload.pc = "upload"
    /\ IF uploaded
       THEN upload' = [upload EXCEPT
                !.pc = "update",
                !.walrusBlobId = blobId,
                !.progress = Progress("recording",
                                      "Updating document with Walrus blob ID...", 70)]
       ELSE uploadDocument_catch(error)
    /\ UNCHANGED ledger

\* Stage 4: the update_blob_id transaction; an aborted transaction is
\* reported through onError like one that was not executed.  Stage 5 issues
\* nothing: the progress goes through 'issuing' to 'complete' at once.
uploadDocument_update(executed, error) ==
    /\ upload.pc = "update"
    /\ IF executed
       THEN /\ update_blob_id(upload.account, upload.documentId, upload.walrusBlobId)
            /\ upload' =
                 IF last'.abort = Committed
                 THEN [upload EXCEPT
                         !.pc = "done",
                         !.progress = Progress("complete",
                                               "Document uploaded successfully!", 100)]
                 ELSE [upload EXCEPT
                         !.pc = "failed",
                         !.progress = Progress("error", error, 0)]
       ELSE uploadDocument_catch(error) /\ UNCHANGED ledger

\* ------------------------------------------------ SignPage: the sign saga
\* The page holds a snapshot of the document; handleSaveSignedPdf and
\* handleSign run from one await to the next, each action below being one
\* such stretch.

\* one page of suiClient.getOwnedObjects({owner, cursor, limit}): the owned
\* objects after the cursor, in the order of their ids, and the cursor of the
\* next page (0, null, when there is none)
getOwnedObjects(owner, cursor, limit) ==
    LET after == {c \in CapIds : caps[c].owner = owner /\ c > cursor}
        data == {c \in after : Cardinality({e \in after : e < c}) < limit}
    IN  [data |-> data,
         nextCursor |-> IF after \ data = {} THEN 0
                        ELSE CHOOSE c \in data : \A e \in data : e <= c]

\* a faulty match: any SignerCap of the page is taken
isSignerCapFor_any(obj, documentId) == TRUE

\* `fields.document_id === document.documentId` for a SignerCap object
isSignerCapFor(obj, documentId) == caps[obj].document_id = documentId

\* the for loop over a page: the first SignerCap of the document, or 0 (null)
findSignerCap(data, documentId) ==
    LET found == {c \in data : isSignerCapFor(c, documentId)}
    IN  IF found = {} THEN 0
        ELSE CHOOSE c \in found : \A e \in found : c <= e

CapNotFound == "SignerCap not found! You may not be authorized to sign this document."

\* the signers of the signatures of a DocumentSummary
signersOf(document) ==
    {document.signatures[i].signer : i \in 1..Len(document.signatures)}

\* the page is opened for a document by the connected account: fetchDocument
\* stores the document's summary
fetchDocument(account, d) ==
    LET document == getDocumentDetails(d, docs[d])
    IN  /\ signing.pc = "idle"
        /\ signing' = [SignPageIdle EXCEPT
              !.pc = "loaded",
              !.account = account,
              !.documentId = d,
              !.authorizedSigners = document.authorizedSigners,
              !.signers = signersOf(document)]
        /\ UNCHANGED ledger

\* what the page derives from its summary for the connected account
isAuthorized(page) == contains(page.authorizedSigners, page.account)
alreadySigned(page) == page.account \in page.signers

\* the button that opens the editor, offered to an account that the summary
\* lists as authorized and as not having signed
setIsEditing ==
    /\ signing.pc = "loaded"
    /\ isAuthorized(signing)
    /\ ~alreadySigned(signing)
    /\ signing' = [signing EXCEPT !.pc = "editing"]
    /\ UNCHANGED ledger

\* the wallet switches to another account while the page, or its editor, is
\* open: useCurrentAccount returns the new account
switchAccount(account) ==
    /\ signing.pc \in {"loaded", "editing"}
    /\ account # signing.account
    /\ signing' = [signing EXCEPT !.account = account]
    /\ UNCHANGED ledger

\* the page is left
unmount ==
    /\ signing.pc \in {"loaded", "editing"}
    /\ signing' = SignPageIdle
    /\ UNCHANGED ledger

\* the catch block of handleSaveSignedPdf
handleSaveSignedPdf_catch(error) ==
    signing' = [signing EXCEPT
                  !.pc = "failed",
                  !.error = error,
                  !.signProgress = Progress("error", error, 0)]

\* the editor's onSave, for the account connected at that moment
handleSaveSignedPdf ==
    /\ signing.pc = "editing"
    /\ signing' = [signing EXCEPT
          !.pc = "encrypt",
          !.signProgress = Progress("encrypting", "Encrypting signed PDF with Seal...", 10)]
    /\ UNCHANGED ledger

\* step 1: encryptPDF
handleSaveSignedPdf_encrypt(encrypted, error) ==
    /\ signing.pc = "encrypt"
    /\ IF encrypted
       THEN signing' = [signing EXCEPT
              !.pc = "upload",
              !.signProgress = Progress("uploading",
                                 "Uploading encrypted signed PDF to Walrus...", 40)]
       ELSE handleSaveSignedPdf_catch(error)
    /\ UNCHANGED ledger

\* step 2: uploadToWalrus, then the scan starts with a null cursor
handleSaveSignedPdf_upload(uploaded, blobId, error) ==
    /\ signing.pc = "upload"
    /\ IF uploaded
       THEN signing' = [signing EXCEPT
              !.pc = "find",
              !.signedBlobId = blobId,
              !.signerCapId = 0,
              !.cursor = 0,
              !.signProgress = Progress("finding",
                                 "Finding your signing capability...", 60)]
       ELSE handleSaveSignedPdf_catch(error)
    /\ UNCHANGED ledger

\* step 3: one iteration of the do-while over the pages of owned objects
handleSaveSignedPdf_find ==
    LET ownedObjects == getOwnedObjects(signing.account, signing.cursor, PageLimit)
        signerCapId == findSignerCap(ownedObjects.data, signing.documentId)
    IN  /\ signing.pc = "find"
        /\ IF signerCapId # 0
           THEN signing' = [signing EXCEPT
                  !.pc = "update",
                  !.signerCapId = signerCapId,
                  !.signProgress = Progress("updating",
                                     "Updating signed blob ID on blockchain...", 75)]
           ELSE IF ownedObjects.nextCursor # 0
           THEN signing' = [signing EXCEPT !.cursor = ownedObjects.nextCursor]
           ELSE handleSaveSignedPdf_catch(CapNotFound)
        /\ UNCHANGED ledger

\* a faulty step 4: a rejected transaction does not stop the saga
handleSaveSignedPdf_update_unchecked(executed, error) ==
    /\ signing.pc = "update"
    /\ IF executed
       THEN update_signed_blob_id(signing.signerCapId, signing.documentId,
                                  signing.signedBlobId)
       ELSE UNCHANGED ledger
    /\ signing' = [signing EXCEPT
          !.pc = "signFind", !.error = "", !.signerCapId = 0, !.cursor = 0,
          !.signProgress = Progress("recording",
                             "Recording signature on blockchain...", 90)]

\* step 4: the update_signed_blob_id transaction; after it handleSign starts
\* its own scan
handleSaveSignedPdf_update(executed, error) ==
    /\ signing.pc = "update"
    /\ IF executed
       THEN /\ update_signed_blob_id(signing.signerCapId, signing.documentId,
                                     signing.signedBlobId)
            /\ IF last'.abort = Committed
               THEN signing' = [signing EXCEPT
                      !.pc = "signFind",
                      !.error = "",
                      !.signerCapId = 0,
                      !.cursor = 0,
                      !.signProgress = Progress("recording",
                                         "Recording signature on blockchain...", 90)]
               ELSE handleSaveSignedPdf_catch(error)
       ELSE /\ handleSaveSignedPdf_catch(error)
            /\ UNCHANGED ledger

\* handleSign returns to handleSaveSignedPdf, which reports 'complete'; an
\* error thrown inside handleSign is caught there and stored, not rethrown
handleSign_return(error, signSuccess) ==
    signing' = [signing EXCEPT
                  !.pc = "done",
                  !.error = error,
                  !.signSuccess = signSuccess,
                  !.signProgress = Progress("complete",
                                     "Document signed successfully!", 100)]

\* step 5, handleSign: one iteration of its scan
handleSign_find ==
    LET ownedObjects == getOwnedObjects(signing.account, signing.cursor, PageLimit)
        signerCapId == findSignerCap(ownedObjects.data, signing.documentId)
    IN  /\ signing.pc = "signFind"
        /\ IF signerCapId # 0
           THEN signing' = [signing EXCEPT !.pc = "sign", !.signerCapId = signerCapId]
           ELSE IF ownedObjects.nextCursor # 0
           THEN signing' = [signing EXCEPT !.cursor = ownedObjects.nextCursor]
           ELSE handleSign_return(CapNotFound, signing.signSuccess)
        /\ UNCHANGED ledger

\* step 5, handleSign: the sign_document transaction
handleSign_sign(executed, error) ==
    /\ signing.pc = "sign"
    /\ IF executed
       THEN /\ sign_document(signing.signerCapId, signing.documentId)
            /\ IF last'.abort = Committed
               THEN handleSign_return("", TRUE)
               ELSE handleSign_return(error, signing.signSuccess)
       ELSE /\ handleSign_return(error, signing.signSuccess)
            /\ UNCHANGED ledger

\* the timers that close the progress modal; after 'complete' the page has
\* reloaded the document
closeProgress ==
    LET document == getDocumentDetails(signing.documentId, docs[signing.documentId])
    IN  /\ signing.pc \in {"done", "failed"}
        /\ signing' = [signing EXCEPT
              !.pc = "loaded",
              !.signProgress = Progress("idle", "", 0),
              !.authorizedSigners =
                  IF signing.pc = "done" THEN document.authorizedSigners ELSE @,
              !.signers =
                  IF signing.pc = "done" THEN signersOf(document) ELSE @]
        /\ UNCHANGED ledger

\* ---------------------------------------- SignPage: decrypting the document
\* the messages SignPage.handleDecrypt shows
NoBlobText == "Document has no Walrus blob ID yet"
NoAccessText == "Failed to decrypt PDF - you may not have access to this document"

\* the Decrypt button of the page showing `document`, pressed by account
handleDecrypt(account, document) ==
    LET blobIdToDecrypt == getLatestBlobId(document)
    IN  /\ decryption.pc = "idle"
        /\ IF blobIdToDecrypt = 0
           THEN decryption' = [decryption EXCEPT !.decryptionError = NoBlobText]
           ELSE decryption' = [decryption EXCEPT
                   !.pc = "download",
                   !.account = account,
                   !.documentId = document.documentId,
                   !.blobId = blobIdToDecrypt,
                   !.error = "",
                   !.decryptionError = ""]
        /\ UNCHANGED ledger

\* decryptDocument's catch block and what handleDecrypt does with the null
\* it returns
decryptDocument_catch(msg) ==
    [decryption EXCEPT !.pc = "idle", !.error = msg,
                       !.decryptionError = NoAccessText]

\* step 1: downloadFromWalrus
decryptDocument_download(downloaded, error) ==
    /\ decryption.pc = "download"
    /\ IF downloaded
       THEN decryption' = [decryption EXCEPT !.pc = "keys"]
       ELSE decryption' = decryptDocument_catch(error)
    /\ UNCHANGED ledger

\* steps 2 to 4: the session key, then decryptPDF; a key server that is
\* reached evaluates seal_approve for the account and refuses the key when
\* it aborts
decryptDocument_keys(reached, error, refusal) ==
    /\ decryption.pc = "keys"
    /\ IF reached
       THEN /\ seal_approve(decryption.account, decryption.documentId)
            /\ IF last'.abort = Committed
               THEN decryption' = [decryption EXCEPT !.pc = "idle",
                                                     !.pdfBlob = TRUE]
               ELSE decryption' = decryptDocument_catch(refusal)
       ELSE /\ decryption' = decryptDocument_catch(error)
            /\ UNCHANGED ledger

\* ------------------------------------------------- AddParticipantsModal
\* The modal shows the DocumentSummary that ProfilePage selected when it was
\* opened (selectedDocument); nothing replaces this snapshot while the modal
\* is shown.  isLoading is pc = "submitting"; success holds the address of
\* the success message, 0 for none.

\* ProfilePage.handleAddParticipants: the card's button, on a document of
\* the account's createdDocs
handleAddParticipants(account, doc) ==
    /\ modal.pc = "closed"
    /\ doc.creator = account
    /\ modal' = [ModalClosed EXCEPT
                    !.pc = "open",
                    !.account = account,
                    !.documentId = doc.documentId,
                    !.authorizedSigners = doc.authorizedSigners]
    /\ UNCHANGED ledger

\* the message validateAddress sets, "" when the address passes; address 0
\* is a text that is not a Sui address
validateAddress(authorizedSigners, address) ==
    IF address = 0 THEN "Invalid Sui address format"
    ELSE IF contains(authorizedSigners, address)
    THEN "This address is already an authorized signer"
    ELSE ""

\* the Add Participant button, with `address` typed into the input: up to
\* the submission of the transaction
handleAddParticipant(address) ==
    /\ modal.pc \in {"open", "succeeded"}
    /\ IF validateAddress(modal.authorizedSigners, address) # ""
       THEN modal' = [modal EXCEPT
                        !.pc = "open",
                        !.newSignerAddress = address,
                        !.error = validateAddress(modal.authorizedSigners, address),
                        !.success = 0]
       ELSE modal' = [modal EXCEPT
                        !.pc = "submitting",
                        !.newSignerAddress = address,
                        !.error = "",
                        !.success = 0]
    /\ UNCHANGED ledger

\* the issue_signer_capability transaction of handleAddParticipant and what
\* follows it; an aborted transaction is reported through onError like one
\* that was not executed
handleAddParticipant_issue(executed, error) ==
    /\ modal.pc = "submitting"
    /\ IF executed
       THEN /\ issue_signer_capability(modal.account, modal.documentId,
                                       modal.newSignerAddress)
            /\ modal' =
                 IF last'.abort = Committed
                 THEN [modal EXCEPT !.pc = "succeeded",
                                    !.success = modal.newSignerAddress,
                                    !.newSignerAddress = 0]
                 ELSE [modal EXCEPT !.pc = "open", !.error = error]
       ELSE /\ modal' = [modal EXCEPT !.pc = "open", !.error = error]
            /\ UNCHANGED ledger

\* the timer set after a success (onSuccess, onClose) and the Cancel
\* button (handleClose): the modal is closed, its document deselected
handleClose ==
    /\ modal.pc \in {"open", "succeeded"}
    /\ modal' = ModalClosed
    /\ UNCHANGED ledger

\* ------------------------------------------------- the ledger's transactions
\* Any address may submit any call; the bounds cap the objects ever created.
CreateDocument(addrs, maxDocs, maxCaps) ==
    \E sender \in addrs, n \in 0..(maxCaps - Len(caps)) :
        \E signers \in [1..n -> addrs] :
            /\ Len(docs) < maxDocs
            /\ create_document(sender, 0, "Test Document", "Test Description", signers)
            /\ UNCHANGED ui

UpdateBlobId(addrs) ==
    \E sender \in addrs, d \in DocIds, b \in Blobs :
        update_blob_id(sender, d, b) /\ UNCHANGED ui

IssueSignerCapability(addrs, maxCaps) ==
    \E sender \in addrs, d \in DocIds, recipient \in addrs :
        /\ Len(caps) < maxCaps
        /\ issue_signer_capability(sender, d, recipient)
        /\ UNCHANGED ui

UpdateSignedBlobId(blobs, maxHist) ==
    \E cap \in CapIds, d \in DocIds, b \in blobs :
        /\ Len(docs[d].signed_blob_id) < maxHist
        /\ update_signed_blob_id(cap, d, b)
        /\ UNCHANGED ui

SignDocument ==
    \E cap \in CapIds, d \in DocIds : sign_document(cap, d) /\ UNCHANGED ui

SealApprove(addrs) ==
    \E sender \in addrs, d \in DocIds : seal_approve(sender, d) /\ UNCHANGED ui

RevokeSigner(addrs) ==
    \E sender \in addrs, d \in DocIds, a \in addrs :
        revoke_signer(sender, d, a) /\ UNCHANGED ui

SubmitSign ==
    \E slot \in 1..MaxInflight, cap \in CapIds, d \in DocIds :
        submit_sign(slot, cap, d) /\ UNCHANGED ui

ExecuteSign == \E slot \in 1..MaxInflight : execute_sign(slot) /\ UNCHANGED ui

ClockTick == clock < MaxClock /\ Tick /\ UNCHANGED ui

Next ==
    \/ CreateDocument(Addrs, MaxDocs, MaxCaps)
    \/ UpdateBlobId(Addrs)
    \/ UpdateSignedBlobId(1..MaxBlob, MaxHist)
    \/ IssueSignerCapability(Addrs, MaxCaps)
    \/ SignDocument
    \/ SealApprove(Addrs)
    \/ RevokeSigner(Addrs)

Spec == Init /\ [][Next]_vars

NextTwoDocs ==
    \/ CreateDocument(1..TwoAddrs, TwoDocs, TwoCaps)
    \/ UpdateBlobId(1..TwoAddrs)
    \/ IssueSignerCapability(1..TwoAddrs, TwoCaps)
    \/ SignDocument
    \/ SealApprove(1..TwoAddrs)
    \/ RevokeSigner(1..TwoAddrs)

SpecTwoDocs == Init /\ [][NextTwoDocs]_vars

NextConc ==
    \/ CreateDocument(1..ConcAddrs, MaxDocs, ConcCaps)
    \/ IssueSignerCapability(1..ConcAddrs, ConcCaps)
    \/ RevokeSigner(1..ConcAddrs)
    \/ SubmitSign
    \/ ExecuteSign
    \/ ClockTick

SpecConc == Init /\ [][NextConc]_vars

NextVersions ==
    \/ CreateDocument(1..VerAddrs, VerDocs, VerCaps)
    \/ UpdateBlobId(1..VerAddrs)
    \/ UpdateSignedBlobId(Blobs, VerHist)
    \/ IssueSignerCapability(1..VerAddrs, VerCaps)
    \/ RevokeSigner(1..VerAddrs)

SpecVersions == Init /\ [][NextVersions]_vars

NextHistory ==
    \/ CreateDocument(1..HistAddrs, MaxDocs, HistCaps)
    \/ UpdateBlobId(1..HistAddrs)
    \/ UpdateSignedBlobId(Blobs, HistLen)
    \/ IssueSignerCapability(1..HistAddrs, HistCaps)
    \/ SignDocument
    \/ SealApprove(1..HistAddrs)
    \/ RevokeSigner(1..HistAddrs)

SpecHistory == Init /\ [][NextHistory]_vars

\* the titles typed into the form; the empty one leaves the button disabled
Titles == {"", "Test Document"}

\* the messages of the errors thrown by the wallet, the Seal client and
\* uploadToWalrus
WalletErrors == {"Transaction failed"}
SealErrors == {"Encryption failed"}
WalrusErrors == {"Failed to get blob ID from Walrus response"}

\* the user presses the button: with a new request the first time, with the
\* form as it was left after a failure
OnCreate(addrs, maxRecipients) ==
    /\ IF upload.pc = "idle"
       THEN \E account \in addrs, title \in Titles, n \in 0..maxRecipients :
               \E recipients \in [1..n -> addrs] :
                   onCreate(account, title, recipients)
       ELSE /\ upload.pc = "failed"
            /\ onCreate(upload.account, upload.title, upload.recipients)
    /\ UNCHANGED <<signing, decryption, modal>>

UploadCreate(maxDocs, maxCaps) ==
    \E executed \in BOOLEAN, error \in WalletErrors :
        /\ Len(docs) < maxDocs
        /\ Len(caps) + Len(unique(upload.recipients)) <= maxCaps
        /\ uploadDocument_create(executed, error)
        /\ UNCHANGED <<signing, decryption, modal>>

UploadEncrypt ==
    \E encrypted \in BOOLEAN, error \in SealErrors :
        uploadDocument_encrypt(encrypted, error)
            /\ UNCHANGED <<signing, decryption, modal>>

UploadUpload ==
    \E uploaded \in BOOLEAN, blobId \in 1..CsBlobs, error \in WalrusErrors :
        uploadDocument_upload(uploaded, blobId, error)
            /\ UNCHANGED <<signing, decryption, modal>>

UploadUpdate ==
    \E executed \in BOOLEAN, error \in WalletErrors :
        uploadDocument_update(executed, error)
            /\ UNCHANGED <<signing, decryption, modal>>

NextCreateSaga ==
    \/ OnCreate(1..CsAddrs, CsRecipients)
    \/ UploadCreate(CsDocs, CsCaps)
    \/ UploadEncrypt
    \/ UploadUpload
    \/ UploadUpdate
    \/ SignDocument
    \/ SealApprove(1..CsAddrs)

SpecCreateSaga == Init /\ [][NextCreateSaga]_vars

\* create_document called directly, with any title: the contract is a public
\* entry point and does not depend on the frontend's form
CreateDocumentTitled(addrs, titles, maxDocs, maxCaps) ==
    \E sender \in addrs, title \in titles, n \in 0..(maxCaps - Len(caps)) :
        \E signers \in [1..n -> addrs] :
            /\ Len(docs) < maxDocs
            /\ create_document(sender, 0, title, "", signers)
            /\ UNCHANGED ui

ViewCreatedDocuments(addrs, users) ==
    \E sender \in addrs, user \in users :
        view_created_documents(sender, user) /\ UNCHANGED ui

ViewAssignedDocuments(addrs, users) ==
    \E sender \in addrs, user \in users :
        view_assigned_documents(sender, user) /\ UNCHANGED ui

NextLookup ==
    \/ CreateDocument(1..LkAddrs, LkDocs, LkCaps)
    \/ IssueSignerCapability(1..LkAddrs, LkCaps)
    \/ RevokeSigner(1..LkAddrs)
    \/ ViewCreatedDocuments(1..LkAddrs, 1..LkUsers)
    \/ ViewAssignedDocuments(1..LkAddrs, 1..LkUsers)

SpecLookup == Init /\ [][NextLookup]_vars

\* the messages of the errors thrown by downloadFromWalrus, by the session
\* key and the key servers when they cannot be reached, and by the key
\* servers when seal_approve aborts
DownloadErrors ==
    {"Blob not found on Walrus",
     "Network error or CORS issue. Check if Walrus aggregator is accessible."}
KeyServiceErrors == {"Failed to fetch"}
SealRefusals == {"User does not have access to one or more of the requested keys"}

\* the page shows the document as it is on the ledger
HandleDecrypt(addrs) ==
    \E account \in addrs, d \in DocIds :
        handleDecrypt(account, getDocumentDetails(d, docs[d]))
            /\ UNCHANGED <<upload, signing, modal>>

DecryptDownload ==
    \E downloaded \in BOOLEAN, error \in DownloadErrors :
        decryptDocument_download(downloaded, error)
            /\ UNCHANGED <<upload, signing, modal>>

DecryptKeys ==
    \E reached \in BOOLEAN, error \in KeyServiceErrors, refusal \in SealRefusals :
        decryptDocument_keys(reached, error, refusal)
            /\ UNCHANGED <<upload, signing, modal>>

NextDecrypt ==
    \/ CreateDocument(1..DcAddrs, DcDocs, DcCaps)
    \/ UpdateBlobId(1..DcAddrs)
    \/ HandleDecrypt(1..DcAddrs)
    \/ DecryptDownload
    \/ DecryptKeys

SpecDecrypt == Init /\ [][NextDecrypt]_vars

\* the creator's profile page; its createdDocs are those of the ledger
HandleAddParticipants(addrs) ==
    \E account \in addrs, d \in DocIds :
        handleAddParticipants(account, getDocumentDetails(d, docs[d]))
            /\ UNCHANGED <<upload, signing, decryption>>

HandleAddParticipant(addrs, maxCaps) ==
    \E address \in addrs \cup {0} :
        /\ Len(caps) < maxCaps
        /\ handleAddParticipant(address)
        /\ UNCHANGED <<upload, signing, decryption>>

AddParticipantIssue ==
    \E executed \in BOOLEAN, error \in WalletErrors :
        handleAddParticipant_issue(executed, error)
            /\ UNCHANGED <<upload, signing, decryption>>

HandleClose == handleClose /\ UNCHANGED <<upload, signing, decryption>>

\* documents created and signers added through the frontend only
NextParticipants ==
    \/ OnCreate(1..PtAddrs, PtRecipients)
    \/ UploadCreate(PtDocs, PtCaps)
    \/ UploadEncrypt
    \/ UploadUpload
    \/ UploadUpdate
    \/ HandleAddParticipants(1..PtAddrs)
    \/ HandleAddParticipant(1..PtAddrs, PtCaps)
    \/ AddParticipantIssue
    \/ HandleClose

SpecParticipants == Init /\ [][NextParticipants]_vars

NextSigning ==
    \/ CreateDocumentTitled(1..SgAddrs, Titles, SgDocs, SgCaps)
    \/ SignDocument
    \/ ClockTick

SpecSigning == Init /\ [][NextSigning]_vars

\* the sign page and its saga, for any account and any document
SignErrors == {"Failed to sign document"}

FetchDocument(addrs) ==
    \E account \in addrs, d \in DocIds : fetchDocument(account, d)
        /\ UNCHANGED <<upload, decryption, modal>>

Unmount == unmount /\ UNCHANGED <<upload, decryption, modal>>

SetIsEditing == setIsEditing /\ UNCHANGED <<upload, decryption, modal>>

SwitchAccount(addrs) ==
    \E account \in addrs : switchAccount(account)
        /\ UNCHANGED <<upload, decryption, modal>>

SaveSignedPdf == handleSaveSignedPdf /\ UNCHANGED <<upload, decryption, modal>>

SaveEncrypt ==
    \E encrypted \in BOOLEAN, error \in SealErrors :
        handleSaveSignedPdf_encrypt(encrypted, error)
            /\ UNCHANGED <<upload, decryption, modal>>

SaveUpload ==
    \E uploaded \in BOOLEAN, blobId \in 1..MaxBlob, error \in WalrusErrors :
        handleSaveSignedPdf_upload(uploaded, blobId, error)
            /\ UNCHANGED <<upload, decryption, modal>>

SaveFind == handleSaveSignedPdf_find /\ UNCHANGED <<upload, decryption, modal>>

SaveUpdate(maxHist) ==
    \E executed \in BOOLEAN, error \in WalletErrors :
        /\ signing.pc = "update"
        /\ executed => Len(docs[signing.documentId].signed_blob_id) < maxHist
        /\ handleSaveSignedPdf_update(executed, error)
        /\ UNCHANGED <<upload, decryption, modal>>

SignFind == handleSign_find /\ UNCHANGED <<upload, decryption, modal>>

SignSign ==
    \E executed \in BOOLEAN, error \in SignErrors :
        handleSign_sign(executed, error)
            /\ UNCHANGED <<upload, decryption, modal>>

CloseProgress == closeProgress /\ UNCHANGED <<upload, decryption, modal>>

SagaStep ==
    \/ SaveSignedPdf
    \/ SaveEncrypt
    \/ SaveUpload
    \/ SaveFind
    \/ SaveUpdate(SsHist)
    \/ SignFind
    \/ SignSign
    \/ CloseProgress

NextSignSaga ==
    \/ CreateDocument(1..SsAddrs, SsDocs, SsCaps)
    \/ SignDocument
    \/ FetchDocument(1..SsAddrs)
    \/ SetIsEditing
    \/ SwitchAccount(1..SsAddrs)
    \/ Unmount
    \/ SagaStep

SpecSignSaga == Init /\ [][NextSignSaga]_vars

NextScan ==
    \/ CreateDocument(1..SsAddrs, SsDocs, ScanCaps)
    \/ FetchDocument(1..SsAddrs)
    \/ SetIsEditing
    \/ SwitchAccount(1..SsAddrs)
    \/ Unmount
    \/ SagaStep

\* every request for a page of owned objects is answered
SpecScan ==
    Init /\ [][NextScan]_vars /\ WF_vars(SaveFind) /\ WF_vars(SignFind)

\* =================================================================== claims
\* the addresses that have a recorded signature on a document
SignedBy(document) ==
    {document.signatures[i].signer : i \in 1..Len(document.signatures)}

\* the number of signatures an address has on a document
SignatureCount(document, addr) ==
    Cardinality({i \in 1..Len(document.signatures) :
                    document.signatures[i].signer = addr})

\* the distinct authorized signers of a document
UniqueSigners(document) ==
    {document.authorized_signers[i] : i \in 1..Len(document.authorized_signers)}

\* the status the data model derives from the signatures and the signer set
DerivedStatus(document) ==
    IF Len(document.signatures) = 0 THEN PENDING
    ELSE IF Len(document.signatures) = Cardinality(UniqueSigners(document))
    THEN COMPLETE
    ELSE PARTIAL

\* a step whose receipt is of the given call: the step of a call op(args)
\* leaves a receipt naming op, its sender, its document and its capability
SignStep == last'.op = "sign_document"
SealStep == last'.op = "seal_approve"
RevokeStep == last'.op = "revoke_signer"
IssueStep == last'.op = "issue_signer_capability"
UpdateBlobStep == last'.op = "update_blob_id"
CreateStep == last'.op = "create_document" /\ last'.doc = Len(docs) + 1
UpdateSignedBlobStep == last'.op = "update_signed_blob_id"

\* C1: in every reachable state of every document the stored status is
\* Complete iff |signatures| = |distinct authorized signers| > 0, Pending iff
\* |signatures| = 0, and Partial otherwise.
C1_StatusIsDerived ==
    \A d \in DocIds : docs[d].status = DerivedStatus(docs[d])

\* C2: a sign_document call by an address that already has a recorded
\* signature fails (with E_ALREADY_SIGNED when its capability is bound to the
\* document) and leaves the signatures unchanged; so every address has at most
\* one signature on a document.
C2_SignTwiceRejected ==
    /\ [](\A d \in DocIds, a \in Addrs : SignatureCount(docs[d], a) <= 1)
    /\ [][SignStep =>
            LET cap == last'.cap
                d == last'.doc
            IN  (sign_document(cap, d) /\ caps[cap].owner \in SignedBy(docs[d]))
                => /\ last'.abort # Committed
                   /\ caps[cap].document_id = d
                        => last'.abort = Aborted(E_ALREADY_SIGNED)
                   /\ docs'[d].signatures = docs[d].signatures]_vars

\* C2 witness: a signer who had signed presented its capability again and the
\* call aborted with E_ALREADY_SIGNED
C2_Witness ==
    /\ last.op = "sign_document"
    /\ last.abort = Aborted(E_ALREADY_SIGNED)
    /\ SignatureCount(docs[last.doc], last.sender) = 1

\* the sign requests of an address for a document, each presenting a
\* capability bound to that document
SignRequests(a, d) ==
    {i \in 1..MaxInflight :
        /\ inflight[i].phase # "none"
        /\ inflight[i].doc = d
        /\ caps[inflight[i].cap].owner = a
        /\ caps[inflight[i].cap].document_id = d}

\* C3: of the sign_document calls submitted together for the same signer and
\* the same document, in every order of execution exactly one commits and
\* every other one aborts with E_ALREADY_SIGNED, and the document holds
\* exactly one signature of that signer.
C3_ConcurrentSignOnce ==
    \A a \in Addrs, d \in DocIds :
        LET executed == {i \in SignRequests(a, d) : inflight[i].phase = "executed"}
            committed == {i \in executed : inflight[i].outcome = Committed}
        IN  /\ SignatureCount(docs[d], a) = Cardinality(committed)
            /\ executed # {} => Cardinality(committed) = 1
            /\ \A i \in executed \ committed :
                   inflight[i].outcome = Aborted(E_ALREADY_SIGNED)

\* C3 witness: two calls of one signer were in flight together, both were
\* executed, and the one submitted second won
C3_Witness ==
    \E a \in Addrs, d \in DocIds :
        \E i, j \in SignRequests(a, d) :
            /\ i # j
            /\ inflight[j].overlap
            /\ inflight[i].phase = "executed"
            /\ inflight[j].phase = "executed"
            /\ inflight[j].outcome = Committed
            /\ inflight[i].outcome = Aborted(E_ALREADY_SIGNED)

\* C4: sign_document with a SignerCap bound to another document aborts with
\* E_NOT_AUTHORIZED, changes no object and emits no event.
C4_WrongCapRejected ==
    [][SignStep =>
         LET cap == last'.cap
             d == last'.doc
         IN  (sign_document(cap, d) /\ caps[cap].document_id # d)
             => /\ last'.abort = Aborted(E_NOT_AUTHORIZED)
                /\ last'.events = <<>>
                /\ UNCHANGED <<docs, registry, caps>>]_vars

\* C4 witness: a capability of one document was presented for another one
C4_Witness ==
    /\ last.op = "sign_document"
    /\ last.abort = Aborted(E_NOT_AUTHORIZED)
    /\ caps[last.cap].document_id # last.doc
    /\ ~has_signed(docs[last.doc], last.sender)

\* C5: after revoke_signer removed an address from the signer list (and the
\* address was not added again) every sign_document call of that address,
\* which still holds its SignerCap of the document, fails.
C5_RevokedCannotSign ==
    [][SignStep =>
         LET cap == last'.cap
             d == last'.doc
         IN  (/\ sign_document(cap, d)
              /\ caps[cap].document_id = d
              /\ caps[cap].owner \notin UniqueSigners(docs[d]))
             => last'.abort # Committed]_vars

\* C6: the recorded signatures of a document only grow: every step keeps the
\* signatures it found, in place, so the count never decreases and an address
\* that has signed stays signed.
C6_SignaturesAppendOnly ==
    [][\A d \in DocIds :
         /\ d \in 1..Len(docs')
         /\ Len(docs'[d].signatures) >= Len(docs[d].signatures)
         /\ SubSeq(docs'[d].signatures, 1, Len(docs[d].signatures))
              = docs[d].signatures
         /\ \A a \in Addrs : has_signed(docs[d], a) => has_signed(docs'[d], a)]_vars

\* C6 witness: the only signer signed (completing the document) and was
\* revoked afterwards; its signature is still recorded
C6_Witness ==
    /\ last.op = "revoke_signer"
    /\ last.abort = Committed
    /\ Len(caps) = 1
    /\ docs[last.doc].authorized_signers = <<>>
    /\ docs[last.doc].status = COMPLETE
    /\ SignedBy(docs[last.doc]) = {caps[1].owner}

RejectedUnchanged ==
    /\ last'.abort = Aborted(E_NOT_AUTHORIZED)
    /\ UNCHANGED <<docs, registry, caps>>

\* C8: update_blob_id, issue_signer_capability and revoke_signer called by any
\* address other than the document's creator abort with E_NOT_AUTHORIZED,
\* change neither the documents nor the registry and issue no capability.
C8_CreatorOnly ==
    [][(UpdateBlobStep \/ IssueStep \/ RevokeStep) =>
         LET sender == last'.sender
             d == last'.doc
         IN  sender # docs[d].creator =>
               /\ UpdateBlobStep =>
                    \A b \in Blobs : update_blob_id(sender, d, b) => RejectedUnchanged
               /\ IssueStep =>
                    \A a \in Addrs :
                       issue_signer_capability(sender, d, a) => RejectedUnchanged
               /\ RevokeStep =>
                    \A a \in Addrs :
                       revoke_signer(sender, d, a) => RejectedUnchanged]_vars

\* C8 witness: an authorized signer who is not the creator tried to add a signer
C8_Witness ==
    /\ last.op = "issue_signer_capability"
    /\ last.abort = Aborted(E_NOT_AUTHORIZED)
    /\ last.sender # docs[last.doc].creator
    /\ last.sender \in UniqueSigners(docs[last.doc])

\* C9: seal_approve accepts the requester iff it is the document's creator or
\* is in the authorized signer list, aborts with E_NOT_AUTHORIZED otherwise,
\* and changes no object.
C9_SealApproveGate ==
    [][SealStep =>
         LET sender == last'.sender
             d == last'.doc
         IN  seal_approve(sender, d) =>
               /\ last'.abort = Committed
                    <=> (sender = docs[d].creator \/ sender \in UniqueSigners(docs[d]))
               /\ last'.abort \in {Committed, Aborted(E_NOT_AUTHORIZED)}
               /\ UNCHANGED <<docs, registry, caps>>]_vars

\* C9 witness: an address that is neither the creator nor a signer of a
\* document that has signers was turned away
C9_Witness ==
    /\ last.op = "seal_approve"
    /\ last.abort = Aborted(E_NOT_AUTHORIZED)
    /\ docs[last.doc].authorized_signers # <<>>
    /\ last.sender # docs[last.doc].creator
    /\ last.sender \notin UniqueSigners(docs[last.doc])

\* C10: after the creator's revoke_signer(target) the target is not authorized
\* any more, every other address is authorized exactly as before, and the call
\* changes nothing when the target was not in the signer list.
C10_RevokeRemovesTarget ==
    [][RevokeStep =>
         LET d == last'.doc
         IN  \A target \in Addrs :
               revoke_signer(docs[d].creator, d, target) =>
                 /\ ~is_authorized(docs'[d], target)
                 /\ \A a \in Addrs \ {target} :
                      is_authorized(docs'[d], a) <=> is_authorized(docs[d], a)
                 /\ ~is_authorized(docs[d], target) => docs' = docs]_vars

\* C11: update_signed_blob_id presenting a SignerCap bound to another document
\* is rejected and appends nothing.
C11_SignedBlobNeedsOwnCap ==
    [][UpdateSignedBlobStep =>
         LET cap == last'.cap
             d == last'.doc
         IN  caps[cap].document_id # d
             => /\ last'.abort # Committed
                /\ docs'[d].signed_blob_id = docs[d].signed_blob_id]_vars

\* the fields of a document that update_signed_blob_id must leave alone
OutsideHistory(document) ==
    <<document.walrus_blob_id, document.signatures, document.status,
      document.authorized_signers>>

\* C12: the signed-version history is append-only: every step keeps the
\* history it found as a prefix, a committed update_signed_blob_id(b) makes
\* the history the old one followed by b, and it leaves walrus_blob_id, the
\* signatures, the status and the signer list unchanged.
C12_HistoryAppendOnly ==
    /\ [][\A d \in DocIds :
            /\ d \in 1..Len(docs')
            /\ Len(docs'[d].signed_blob_id) >= Len(docs[d].signed_blob_id)
            /\ SubSeq(docs'[d].signed_blob_id, 1, Len(docs[d].signed_blob_id))
                 = docs[d].signed_blob_id]_vars
    /\ [][UpdateSignedBlobStep =>
            LET cap == last'.cap
                d == last'.doc
            IN  \A b \in Blobs :
                  (update_signed_blob_id(cap, d, b) /\ last'.abort = Committed)
                  => /\ docs'[d].signed_blob_id = Append(docs[d].signed_blob_id, b)
                     /\ OutsideHistory(docs'[d]) = OutsideHistory(docs[d])]_vars

\* C12 witness: a second, different version was appended to the history of a
\* document that has a signature and another current blob
C12_Witness ==
    /\ last.op = "update_signed_blob_id"
    /\ last.abort = Committed
    /\ LET document == docs[last.doc]
           n == Len(document.signed_blob_id)
       IN  /\ n >= 2
           /\ document.signed_blob_id[n] # document.signed_blob_id[n - 1]
           /\ document.walrus_blob_id # document.signed_blob_id[n]
           /\ document.signatures # <<>>

\* the blob the frontend decrypts for document d
LatestBlobId(ds, d) == getLatestBlobId(getDocumentDetails(d, ds[d]))

\* C13: getLatestBlobId is the last entry of the signed-version history when
\* there is one and walrus_blob_id otherwise; so a committed
\* update_signed_blob_id(b) makes it b, and update_blob_id(b) makes it b only
\* while the history is empty and leaves it alone afterwards.
C13_LatestBlobId ==
    /\ [](\A d \in DocIds :
            LatestBlobId(docs, d) =
                IF docs[d].signed_blob_id # <<>>
                THEN docs[d].signed_blob_id[Len(docs[d].signed_blob_id)]
                ELSE docs[d].walrus_blob_id)
    /\ [][UpdateSignedBlobStep =>
            \A b \in Blobs :
              (update_signed_blob_id(last'.cap, last'.doc, b)
                 /\ last'.abort = Committed)
              => LatestBlobId(docs', last'.doc) = b]_vars
    /\ [][UpdateBlobStep =>
            \A b \in Blobs :
              (update_blob_id(last'.sender, last'.doc, b)
                 /\ last'.abort = Committed)
              => LatestBlobId(docs', last'.doc) =
                    IF docs[last'.doc].signed_blob_id = <<>>
                    THEN b
                    ELSE LatestBlobId(docs, last'.doc)]_vars

\* C13 witness: the creator changed the current blob of a document that has
\* two signed versions; the latest blob is the newer version and differs
\* from both the older version and the current blob
C13_Witness ==
    /\ last.op = "update_blob_id"
    /\ last.abort = Committed
    /\ LET document == docs[last.doc]
       IN  /\ Len(document.signed_blob_id) = 2
           /\ LatestBlobId(docs, last.doc) = document.signed_blob_id[2]
           /\ LatestBlobId(docs, last.doc) # document.signed_blob_id[1]
           /\ LatestBlobId(docs, last.doc) # document.walrus_blob_id

\* how many times a document id is listed in a vector of ids
Occurrences(v, d) == Cardinality({i \in 1..Len(v) : v[i] = d})

\* C14: a document id is listed at most once in assigned_to_user[addr], for
\* every address, whatever signer list create_document was given and however
\* often issue_signer_capability was called.
C14_AssignedOnce ==
    \A a \in Addrs, d \in DocIds :
        Occurrences(get_assigned_documents(registry, a), d) <= 1

\* C15: a committed issue_signer_capability for an address that is already an
\* authorized signer leaves authorized_signers unchanged.
C15_IssueIdempotent ==
    [][IssueStep =>
         LET sender == last'.sender
             d == last'.doc
         IN  \A recipient \in Addrs :
               (/\ issue_signer_capability(sender, d, recipient)
                /\ last'.abort = Committed
                /\ is_authorized(docs[d], recipient))
               => docs'[d].authorized_signers = docs[d].authorized_signers]_vars

\* C16: every document is listed exactly once in created_by_user of its
\* creator and in no other address's list, and total_documents is the number
\* of documents created: 0 at first, one more after every create_document,
\* unchanged by every other transaction.
C16_CreatedOnceAndCounted ==
    /\ [](\A d \in DocIds, a \in Addrs :
            Occurrences(get_created_documents(registry, a), d)
                = IF a = docs[d].creator THEN 1 ELSE 0)
    /\ [](get_total_documents(registry) = Len(docs))
    /\ [][get_total_documents(registry') =
            get_total_documents(registry) + IF CreateStep THEN 1 ELSE 0]_vars

\* C16 witness: two creators have one document each and a signature was
\* recorded afterwards
C16_Witness ==
    /\ Len(docs) = 2
    /\ docs[1].creator # docs[2].creator
    /\ get_total_documents(registry) = 2
    /\ last.op = "sign_document"
    /\ last.abort = Committed

\* the capabilities of an address that are bound to document d
CapsOf(cs, a, d) == {c \in 1..Len(cs) : cs[c] = SignerCap(d, a)}

\* C17: the step of create_document(S) by an address makes, at once, a new
\* document whose creator is that address, whose status is Pending, whose
\* signatures and signed versions are empty and whose signer list is S; every
\* address of S then holds a SignerCap bound to the document and has the
\* document in its assigned_to_user list.
C17_CreateDocument ==
    [][CreateStep =>
         LET d == last'.doc
         IN  \A sender \in Addrs, n \in 0..TwoCaps :
               \A S \in [1..n -> Addrs] :
                 create_document(sender, 0, "Test Document", "Test Description", S)
                 => /\ d \notin DocIds
                    /\ last'.abort = Committed
                    /\ docs'[d].creator = sender
                    /\ docs'[d].status = PENDING
                    /\ docs'[d].signatures = <<>>
                    /\ docs'[d].signed_blob_id = <<>>
                    /\ docs'[d].authorized_signers = S
                    /\ \A i \in 1..Len(S) :
                         /\ CapsOf(caps', S[i], d) # {}
                         /\ CapsOf(caps, S[i], d) = {}
                         /\ contains(get_assigned_documents(registry', S[i]), d)]_vars

\* C17 witness: a second document was created, by another creator, for a
\* signer who was already assigned the first document
C17_Witness ==
    /\ last.op = "create_document"
    /\ last.doc = 2
    /\ docs[2].creator # docs[1].creator
    /\ docs[2].authorized_signers # <<>>
    /\ get_assigned_documents(registry, docs[2].authorized_signers[1]) = <<1, 2>>
    /\ CapsOf(caps, docs[2].authorized_signers[1], 2) # {}

\* the state left by a committed issue_signer_capability
Issued == last.op = "issue_signer_capability" /\ last.abort = Committed

\* the capability made by the transaction executed last
NewCap == Len(caps)

\* the outcome that sign_document(cap, d) would have in the current state
SignOutcome(cap, d, outcome) == ENABLED (sign_document(cap, d) /\ last'.abort = outcome)

\* what a committed issue_signer_capability(recipient) leaves, signing aside:
\* the recipient is authorized, seal_approve accepts it, the document is in
\* its assigned list and it holds a new SignerCap bound to the document
IssuedSigner ==
    LET d == last.doc
        recipient == caps[NewCap].owner
    IN  /\ caps[NewCap] = SignerCap(d, recipient)
        /\ is_authorized(docs[d], recipient)
        /\ ENABLED (seal_approve(recipient, d) /\ last'.abort = Committed)
        /\ contains(get_assigned_documents(registry, recipient), d)

\* a committed issue_signer_capability makes one capability, for its
\* recipient, and leaves the signatures alone
IssueKeepsSignatures ==
    [][IssueStep =>
         \A recipient \in Addrs :
           (/\ issue_signer_capability(last'.sender, last'.doc, recipient)
            /\ last'.abort = Committed)
           => /\ caps' = Append(caps, SignerCap(last'.doc, recipient))
              /\ docs'[last'.doc].signatures = docs[last'.doc].signatures]_vars

\* C18 as stated: after a committed issue_signer_capability(recipient) the
\* recipient is an authorized signer whom seal_approve accepts, has the
\* document in its assigned list and holds a SignerCap of the document with
\* which sign_document commits; the signatures are unchanged.
C18_IssuedSignerCanSign ==
    /\ [](Issued => IssuedSigner /\ SignOutcome(NewCap, last.doc, Committed))
    /\ IssueKeepsSignatures

\* C18 amended: as above, but sign_document with the new capability commits
\* only if the recipient has no signature on the document yet; otherwise it
\* aborts with E_ALREADY_SIGNED (never with E_NOT_AUTHORIZED).
C18_IssuedSignerCanSignOnce ==
    /\ [](Issued =>
            /\ IssuedSigner
            /\ SignOutcome(NewCap, last.doc,
                   IF has_signed(docs[last.doc], caps[NewCap].owner)
                   THEN Aborted(E_ALREADY_SIGNED)
                   ELSE Committed))
    /\ IssueKeepsSignatures

\* C18 witness: the creator issued a capability to another address that had
\* already signed the document
C18_Witness ==
    /\ Issued
    /\ caps[NewCap].owner # docs[last.doc].creator
    /\ has_signed(docs[last.doc], caps[NewCap].owner)

\* C19: a SignerCap is bound to one existing document and never changes or
\* disappears; capabilities are made only by create_document and by an
\* issue_signer_capability of the document's creator; sign_document leaves
\* the capabilities as they are, and a capability of the document whose owner
\* has signed is turned away with E_ALREADY_SIGNED, not E_NOT_AUTHORIZED.
C19_CapabilityLifecycle ==
    /\ [](\A c \in CapIds : caps[c].document_id \in DocIds)
    /\ [][\A c \in CapIds : c \in 1..Len(caps') /\ caps'[c] = caps[c]]_vars
    /\ [][caps' # caps =>
            \/ CreateStep
            \/ /\ IssueStep
               /\ last'.abort = Committed
               /\ last'.sender = docs[last'.doc].creator
               /\ Len(caps') = Len(caps) + 1
               /\ caps'[Len(caps')].document_id = last'.doc]_vars
    /\ [][SignStep => caps' = caps]_vars
    /\ [](\A c \in CapIds :
            caps[c].owner \in SignedBy(docs[caps[c].document_id])
            => SignOutcome(c, caps[c].document_id, Aborted(E_ALREADY_SIGNED)))

\* C19 witness: a signer with a single capability signed with it and then
\* presented it again
C19_Witness ==
    /\ last.op = "sign_document"
    /\ last.abort = Aborted(E_ALREADY_SIGNED)
    /\ CapsOf(caps, last.sender, last.doc) = {last.cap}
    /\ last.sender \in SignedBy(docs[last.doc])

\* no SignerCap is bound to document d: it was created with an empty signer
\* list and no issue_signer_capability has committed for it since
NoCapFor(cs, d) == \A c \in 1..Len(cs) : cs[c].document_id # d

\* C20: create_document with an empty signer list commits and leaves a
\* Pending document without signatures and without capabilities; only a
\* committed issue_signer_capability for the document ends that, and until
\* then the document stays Pending with no signature.
C20_EmptySignerSetStaysPending ==
    /\ [][CreateStep =>
            \A sender \in Addrs :
              create_document(sender, 0, "Test Document", "Test Description", <<>>)
              => /\ last'.abort = Committed
                 /\ docs'[last'.doc].status = PENDING
                 /\ docs'[last'.doc].signatures = <<>>
                 /\ NoCapFor(caps', last'.doc)]_vars
    /\ [][\A d \in DocIds :
            (NoCapFor(caps, d) /\ ~NoCapFor(caps', d))
            => IssueStep /\ last'.abort = Committed /\ last'.doc = d]_vars
    /\ [](\A d \in DocIds :
            NoCapFor(caps, d)
            => docs[d].status = PENDING /\ docs[d].signatures = <<>>)

\* C20 witness: next to a document that has a signature, a signer of that
\* document tried to sign a document created without signers and was turned
\* away
C20_Witness ==
    /\ last.op = "sign_document"
    /\ last.abort # Committed
    /\ NoCapFor(caps, last.doc)
    /\ docs[last.doc].authorized_signers = <<>>
    /\ docs[last.doc].status = PENDING
    /\ \E d \in DocIds : last.sender \in SignedBy(docs[d])

\* the create saga fails in this step, after the stage at upload.pc
UploadFails == upload.pc # "failed" /\ upload'.pc = "failed"

StageAt(pc) ==
    IF pc = "encrypt" THEN "encrypting"
    ELSE IF pc = "upload" THEN "uploading"
    ELSE "recording"

\* C28: when the create saga fails, the stage it reports is the stage that
\* failed: encrypting, uploading or recording.
C28_FailedStageReported ==
    [][UploadFails => upload'.progress.stage = StageAt(upload.pc)]_vars

\* C29: a retry of the create saga resumes after the stages that were
\* committed: it keeps the document created for the request (no second
\* document, total_documents does not grow) and the blob already uploaded.
C29_CreateSagaResumes ==
    /\ [][(upload.pc = "failed" /\ upload'.pc # "failed") =>
            /\ upload.documentId # 0
                 => /\ upload'.documentId = upload.documentId
                    /\ upload'.pc # "create"
            /\ upload.walrusBlobId # 0
                 => /\ upload'.walrusBlobId = upload.walrusBlobId
                    /\ upload'.pc = "update"]_vars
    /\ [](get_total_documents(registry) <= 1)

\* C21: create_document rejects an empty title, so that no document on the
\* ledger, no DocumentCreated event, no registry entry and no capability
\* belongs to a document with an empty title.
C21_EmptyTitleRejected ==
    /\ [][(CreateStep /\ last'.abort = Committed) =>
            /\ last'.events[1].title # ""
            /\ docs'[last'.doc].title # ""]_vars
    /\ [](\A d \in DocIds : docs[d].title # "")

\* C22: a committed sign_document recomputes the status from the signer list
\* as it is at the time of signing: the status it stores is Complete exactly
\* when the number of signatures after the insertion equals the length of the
\* current list, whatever the status was before; so the signature of a signer
\* added to a Complete document of two makes it 3 of 3, Complete.
C22_StatusFromCurrentSigners ==
    [][(SignStep /\ last'.abort = Committed) =>
         LET d == last'.doc
         IN  /\ Len(docs'[d].signatures) = Len(docs[d].signatures) + 1
             /\ docs'[d].authorized_signers = docs[d].authorized_signers
             /\ docs'[d].status \in {PARTIAL, COMPLETE}
             /\ docs'[d].status = COMPLETE
                  <=> Len(docs'[d].signatures) = Len(docs[d].authorized_signers)
             /\ (docs[d].status = COMPLETE /\ Len(docs[d].signatures) = 2
                    /\ Len(docs[d].authorized_signers) = 3)
                  => (docs'[d].status = COMPLETE
                        /\ Len(docs'[d].signatures) = 3)]_vars

\* C22 witness: three distinct signers have signed; the third signed a
\* document that needs three signatures and is Complete with them
C22_Witness ==
    /\ last.op = "sign_document"
    /\ last.abort = Committed
    /\ LET document == docs[last.doc]
       IN  /\ Len(document.signatures) = 3
           /\ Cardinality(SignedBy(document)) = 3
           /\ Cardinality(UniqueSigners(document)) = 3
           /\ document.signatures[3].signer = document.authorized_signers[3]
           /\ caps[last.cap].owner = document.authorized_signers[3]
           /\ document.status = COMPLETE

\* C23: a document created with a non-empty signer list is Complete once
\* every authorized signer has signed, and before that it is Partial as soon
\* as one of them has signed.
C23_AllSignedIsComplete ==
    \A d \in DocIds :
        LET document == docs[d]
        IN  document.authorized_signers # <<>> =>
              /\ UniqueSigners(document) \subseteq SignedBy(document)
                   => document.status = COMPLETE
              /\ (SignedBy(document) # {}
                    /\ ~(UniqueSigners(document) \subseteq SignedBy(document)))
                   => document.status = PARTIAL

\* a step that executes sign_document (the clock ticks between transactions)
SignExecuted == SignStep /\ clock' = clock

\* C24: a committed sign_document emits exactly one DocumentSigned event with
\* the document, the signer, the clock's timestamp (the one stored with the
\* signature) and the signature count after the insertion, which is one more
\* than before; an aborted one emits nothing and inserts nothing.  The totals
\* of a document's successive events are therefore 1, 2, 3, ...
C24_OneEventPerSignature ==
    [][SignExecuted =>
         LET d == last'.doc
             n == Len(docs[d].signatures)
         IN  IF last'.abort = Committed
             THEN /\ Len(last'.events) = 1
                  /\ last'.events[1].type = "DocumentSigned"
                  /\ last'.events[1].document_id = d
                  /\ last'.events[1].signer = caps[last'.cap].owner
                  /\ last'.events[1].signer = last'.sender
                  /\ last'.events[1].timestamp = clock
                  /\ last'.events[1].total_signatures = n + 1
                  /\ Len(docs'[d].signatures) = n + 1
                  /\ docs'[d].signatures[n + 1] =
                        Signature(last'.sender, last'.events[1].timestamp)
             ELSE /\ last'.events = <<>>
                  /\ docs' = docs]_vars

\* C24 witness: the third signature of a document was just recorded, after
\* the clock advanced, and its event carries the total 3
C24_Witness ==
    /\ last.op = "sign_document"
    /\ last.abort = Committed
    /\ Len(docs[last.doc].signatures) = 3
    /\ last.events[1].total_signatures = 3
    /\ last.events[1].timestamp = 1
    /\ docs[last.doc].created_at = 0

\* the history of signed versions holds the version the saga uploaded
VersionRecorded(ds) ==
    contains(ds[signing.documentId].signed_blob_id, signing.signedBlobId)

C26_CompleteOnlyAfterSignature ==
    signing.signProgress.stage = "complete" =>
        /\ signing.signSuccess
        /\ signing.error = ""
        /\ signing.account \in SignedBy(docs[signing.documentId])

\* the SignerCaps an account owns, and the ones among them for a document
OwnedCaps(account) == {c \in CapIds : caps[c].owner = account}
OwnedCapsFor(account, d) == {c \in OwnedCaps(account) : caps[c].document_id = d}

\* a step of one of the two capability scans
ScanStep == signing.pc \in {"find", "signFind"} /\ signing' # signing

C30_WitnessNotFound ==
    /\ signing.pc = "failed"
    /\ signing.error = CapNotFound
    /\ signing.cursor # 0
    /\ OwnedCapsFor(signing.account, signing.documentId) = {}

\* C33: a committed revoke_signer changes the authorized signer list of its
\* document and nothing else: the stored status, the signatures, the blob
\* id, the history of signed versions, the creator, every other document,
\* the registry (assigned_to_user of the target included) and the
\* capabilities are as before.
C33_RevokeChangesSignerListOnly ==
    [][(RevokeStep /\ last'.abort = Committed) =>
         LET d == last'.doc
         IN  /\ docs' = [docs EXCEPT
                           ![d].authorized_signers = docs'[d].authorized_signers]
             /\ docs'[d].status = docs[d].status
             /\ docs'[d].signatures = docs[d].signatures
             /\ registry' = registry
             /\ caps' = caps]_vars

\* C33 witness: the only signer of a Complete document was revoked after
\* signing; the document is still Complete, its signature and the signer's
\* registry entry are still there
C33_Witness ==
    /\ last.op = "revoke_signer"
    /\ last.abort = Committed
    /\ LET document == docs[last.doc]
       IN  /\ document.status = COMPLETE
           /\ document.authorized_signers = <<>>
           /\ Len(document.signatures) = 1
           /\ contains(get_assigned_documents(registry, document.signatures[1].signer),
                       last.doc)

IsPrefix(v, w) == Len(v) <= Len(w) /\ SubSeq(w, 1, Len(v)) = v

\* C35: no assignment is lost, in whatever order the create_document and
\* issue_signer_capability transactions of different documents are
\* executed: assigned_to_user of an address lists the document of every
\* capability made for it, and a transaction only appends to the lists.
C35_NoAssignmentLost ==
    /\ [](\A c \in CapIds :
            contains(get_assigned_documents(registry, caps[c].owner),
                     caps[c].document_id))
    /\ [][\A a \in Addrs :
            IsPrefix(get_assigned_documents(registry, a),
                     get_assigned_documents(registry', a))]_vars

\* C35 witness: an address was assigned the second document at its creation
\* and, after that, the first document by issue_signer_capability
C35_Witness ==
    \E a \in Addrs :
        /\ Len(caps) = 2
        /\ caps[1] = SignerCap(2, a)
        /\ caps[2] = SignerCap(1, a)
        /\ get_assigned_documents(registry, a) = <<2, 1>>

\* the addresses that hold a SignerCap of a document
CapOwners(cs, d) ==
    {cs[c].owner : c \in {c \in 1..Len(cs) : cs[c].document_id = d}}

RECURSIVE IdsInOrder(_, _)
IdsInOrder(n, ids) ==
    IF n = 0 THEN <<>>
    ELSE IF n \in ids THEN Append(IdsInOrder(n - 1, ids), n)
    ELSE IdsInOrder(n - 1, ids)

\* C32: the registry's views never fail and never write: whatever the
\* address, get_created_documents returns the documents the address created,
\* in the order of their creation, and get_assigned_documents the recorded
\* assignments, which are documents the address holds a capability of; for
\* an address without an entry both return the empty list.
C32_LookupsNeverFail ==
    /\ [](last.op \in {"get_created_documents", "get_assigned_documents"} =>
            /\ last.abort = Committed
            /\ Len(last.events) = 1
            /\ \A i \in 1..Len(last.events[1].value) :
                   last.events[1].value[i] \in DocIds)
    /\ [](\A user \in 1..LkUsers :
            LET created == get_created_documents(registry, user)
                assigned == get_assigned_documents(registry, user)
            IN  /\ created =
                      IdsInOrder(Len(docs), {d \in DocIds : docs[d].creator = user})
                /\ {assigned[i] : i \in 1..Len(assigned)} =
                      {caps[c].document_id : c \in {c \in CapIds : caps[c].owner = user}}
                /\ ~table_contains(registry.created_by_user, user) => created = <<>>
                /\ ~table_contains(registry.assigned_to_user, user) => assigned = <<>>)
    /\ [][last'.op = "get_created_documents" =>
            \E user \in 1..LkUsers :
                last'.events[1].value = get_created_documents(registry, user)]_vars
    /\ [][last'.op = "get_assigned_documents" =>
            \E user \in 1..LkUsers :
                last'.events[1].value = get_assigned_documents(registry, user)]_vars
    /\ [][last'.op \in {"get_created_documents", "get_assigned_documents"} =>
            UNCHANGED <<registry, docs, caps>>]_vars

\* C32 witness: a view was called for an address that has no entry in either
\* table, while other addresses have entries, and returned the empty list
C32_Witness ==
    /\ last.op = "get_assigned_documents"
    /\ last.events[1].value = <<>>
    /\ ~table_contains(registry.created_by_user, LkUsers)
    /\ ~table_contains(registry.assigned_to_user, LkUsers)
    /\ get_total_documents(registry) = 2
    /\ \E a \in 1..LkAddrs : Len(get_assigned_documents(registry, a)) = 2
\* C31: a decryption attempt that fails because seal_approve was rejected is
\* reported by the page as missing access, and an attempt that fails because
\* the blob could not be downloaded or the key service could not be reached
\* is reported with a different message
C31_AuthorizationFailureDistinguished ==
    /\ decryption.error \in SealRefusals => decryption.decryptionError = NoAccessText
    /\ decryption.error \in DownloadErrors \cup KeyServiceErrors =>
           decryption.decryptionError # NoAccessText


\* the create saga moves from one stage to another one
StageEntered(pc) == upload.pc # pc /\ upload'.pc = pc

\* C36: a create-saga run that reports 'complete' went through
\* create_document, the encryption, the upload and update_blob_id in this
\* order; it encrypted under the id of the document its own create_document
\* produced; and when it completes, the document's blob reference is the one
\* its own upload returned
C36_CreateSagaOrder ==
    /\ [](upload.progress.stage = "complete" =>
            /\ upload.documentId \in DocIds
            /\ upload.sealId = upload.documentId
            /\ upload.walrusBlobId # 0
            /\ docs[upload.documentId].creator = upload.account
            /\ docs[upload.documentId].walrus_blob_id = upload.walrusBlobId)
    /\ [][/\ StageEntered("encrypt") =>
               /\ upload.pc = "create"
               /\ last'.op = "create_document" /\ last'.abort = Committed
               /\ Len(docs') = Len(docs) + 1
               /\ upload'.documentId = Len(docs')
               /\ upload'.sealId = 0 /\ upload'.walrusBlobId = 0
               /\ docs'[Len(docs')].walrus_blob_id = 0
          /\ StageEntered("upload") =>
               /\ upload.pc = "encrypt"
               /\ upload'.documentId = upload.documentId
               /\ upload'.sealId = upload.documentId
               /\ upload'.walrusBlobId = 0
               /\ UNCHANGED docs
          /\ StageEntered("update") =>
               /\ upload.pc = "upload"
               /\ upload'.documentId = upload.documentId
               /\ upload'.sealId = upload.sealId
               /\ upload'.walrusBlobId # 0
               /\ UNCHANGED docs
          /\ upload'.progress.stage = "complete" /\ upload.progress.stage # "complete" =>
               /\ upload.pc = "update"
               /\ upload'.documentId = upload.documentId
               /\ upload'.sealId = upload.sealId
               /\ upload'.walrusBlobId = upload.walrusBlobId
               /\ last'.op = "update_blob_id" /\ last'.abort = Committed
               /\ last'.doc = upload.documentId
               /\ docs'[upload.documentId].walrus_blob_id = upload.walrusBlobId
         ]_vars

\* the second run of the saga, after a failed one, reports 'complete': it
\* encrypted under its own document's id and recorded its own upload
C36_Witness ==
    /\ upload.progress.stage = "complete"
    /\ upload.documentId = 2 /\ upload.sealId = 2
    /\ upload.walrusBlobId = 2
    /\ docs[2].walrus_blob_id = 2 /\ docs[1].walrus_blob_id = 0


\* C38: in every reachable state of the ledger, the status DocumentCard
\* derives for a document is the status stored on the document, the one the
\* status filter of ProfilePage selects by
C38_CardStatusIsStoredStatus ==
    \A d \in DocIds :
        LET doc == getDocumentDetails(d, docs[d])
        IN  /\ getActualStatus(doc) = doc.status
            /\ matchesStatus("pending", doc) <=> getActualStatus(doc) = 0
            /\ matchesStatus("partial", doc) <=> getActualStatus(doc) = 1
            /\ matchesStatus("complete", doc) <=> getActualStatus(doc) = 2


\* C39: when documents are created and signers are added through the
\* frontend only, no document's authorized signer list holds an address
\* twice
C39_FrontendKeepsSignersDistinct ==
    \A d \in DocIds : \A a \in Addrs : Occurrences(docs[d].authorized_signers, a) <= 1


====
